---- MODULE Spec2Model ----
(***************************************************************************)
(* Model of the enum-state transition-graph inference of                   *)
(* corpus_studies/solidity_state_study/slither_plugins/EnumExplorer.py.    *)
(*                                                                         *)
(* Representation.  Python objects are records tagged with their class     *)
(* (field cls for declarations, field kind for expressions).  An enum      *)
(* member name is a Python str, modelled as a str object holding a         *)
(* sequence of characters, so that the substring test `x in "abc"` and the *)
(* set membership test `x in {..}` are different operations.  A            *)
(* control-flow node carries its successors in the field sons              *)
(* (node.sons[0] of the code is sons[1] here); a join node reached from    *)
(* two branches appears once under each branch, which is how the walker    *)
(* visits it.  A method of the explorer takes the object as its first      *)
(* argument and hands it back with its outcome.                            *)
(***************************************************************************)
EXTENDS Naturals, Sequences, FiniteSets, TLC

VARIABLES self, ret

vars == <<self, ret>>

-----------------------------------------------------------------------------
(* Python values *)

\* None answers every isinstance test of the code with False
None == [cls |-> "NoneType", kind |-> "NoneType"]

\* Optional[Set[str]] of _possibleStates
Some(S) == [cls |-> "set", v |-> S]

\* A str and a set are both legal right operands of Python's `in`.
PyStr(s) == [cls |-> "str", v |-> s]
PySet(S) == [cls |-> "set", v |-> S]

\* s is a contiguous subsequence of t  (Python: s in t, for two str)
IsSubstring(s, t) ==
    \E i \in 0..(Len(t) - Len(s)) : \A j \in 1..Len(s) : t[i + j] = s[j]

\* Python: x in c
PyIn(x, c) == IF c.cls = "str" THEN IsSubstring(x.v, c.v) ELSE x \in c.v

\* dict(zip(keys, vals)); zip stops at the shorter list
DictZip(keys, vals) ==
    LET n == IF Len(keys) < Len(vals) THEN Len(keys) ELSE Len(vals)
        last(k) == CHOOSE i \in 1..n : keys[i] = k /\ \A j \in (i+1)..n : keys[j] # k
    IN [k \in {keys[i] : i \in 1..n} |-> vals[last(k)]]

EmptyDict == [k \in {} |-> None]

-----------------------------------------------------------------------------
(* Outcome of a call: a returned value or a raised exception, together with *)
(* the explorer object as the call left it.                                 *)

Return(slf, v) == [exc |-> "none", ret |-> v, self |-> slf]
Raise(slf, e) == [exc |-> e, ret |-> None, self |-> slf]

\* What a caller of a public method observes
\* a value computed once and used under a name: name = value; rest
With(value, Rest(_)) == CHOOSE y \in {Rest(name) : name \in {value}} : TRUE

\* r = call(...); rest: an exception raised by the call propagates
OnReturn(call, Rest(_)) ==
    CHOOSE y \in {IF r.exc # "none" THEN r ELSE Rest(r) : r \in {call}} : TRUE

Result(op, args, r) == [op |-> op, args |-> args, exc |-> r.exc, value |-> r.ret]

-----------------------------------------------------------------------------
(* slither expression and node objects (constructors of the input) *)

Identifier(v) == [kind |-> "Identifier", value |-> v]
MemberAccess(e, m) == [kind |-> "MemberAccess", expression |-> e, member_name |-> m]
UnaryOperation(e, t) == [kind |-> "UnaryOperation", type |-> t, expression |-> e]
BinaryOperation(l, r, t) ==
    [kind |-> "BinaryOperation", type |-> t, expression_left |-> l, expression_right |-> r]
AssignmentOperation(l, r, t) ==
    [kind |-> "AssignmentOperation", type |-> t, expression_left |-> l, expression_right |-> r]
CallExpression(c, args) == [kind |-> "CallExpression", called |-> c, arguments |-> args]

StateVariable(n) == [cls |-> "StateVariable", name |-> n]
LocalVariable(n) == [cls |-> "LocalVariable", name |-> n]
SolidityFunction(n) == [cls |-> "SolidityFunction", name |-> n]
EnumContract(n, vals) == [cls |-> "EnumContract", name |-> n, values |-> vals]
Function(n, params, entry, ctor, ctorvars) ==
    [cls |-> "Function", name |-> n, parameters |-> params, entry_point |-> entry,
     is_constructor |-> ctor, is_constructor_variables |-> ctorvars]

Node(t, e, sons) == [cls |-> "Node", type |-> t, expression |-> e, sons |-> sons]

Edge(s_from, s_to, label) == [s_from |-> s_from, s_to |-> s_to, label |-> label]

\* Identity of a routine as an edge label
Label(func) == func.name

-----------------------------------------------------------------------------
(* slither predicates used by the explorer *)

\* node.contains_require_or_assert()
contains_require_or_assert(node) ==
    /\ node.expression.kind = "CallExpression"
    /\ node.expression.called.kind = "Identifier"
    /\ node.expression.called.value.cls = "SolidityFunction"
    /\ node.expression.called.value.name \in {"require(bool)", "assert(bool)"}

\* slither.detectors.functions.modifier.is_revert
is_revert(node) ==
    \/ node.type = "THROW"
    \/ /\ node.expression.kind = "CallExpression"
       /\ node.expression.called.kind = "Identifier"
       /\ node.expression.called.value.cls = "SolidityFunction"
       /\ node.expression.called.value.name \in {"revert()", "revert(string)"}

-----------------------------------------------------------------------------
(* EnumExplorer *)

\* Checks if the expression is an enum constant of the type enum_type.
expr_is_enum_val(exp, enum_type) ==
    /\ exp.kind = "MemberAccess"
    /\ exp.expression.kind = "Identifier"
    /\ exp.expression.value = enum_type

\* Checks if the expression is equal to the variable var.
expr_is_var(exp, var) == exp.kind = "Identifier" /\ exp.value = var

Range(seq) == {seq[i] : i \in 1..Len(seq)}

\* EnumExplorer.__init__; the attributes edges and func do not exist until
\* the first exploreFunction call: edges is read here as empty, func as None.
EnumExplorer(contract, state_var, enum_type) ==
    [contract |-> contract, state_var |-> state_var,
     all_states |-> Range(enum_type.values), enum_type |-> enum_type,
     edges |-> {}, func |-> None]

initialContext(slf) == slf.all_states

completeCodePath(slf, context, ending_states) ==
    [slf EXCEPT !.edges = @ \cup
        {Edge(start, IF end = None THEN start ELSE end, Label(slf.func)) :
            start \in context, end \in ending_states}]

RECURSIVE _possibleStates(_, _, _)
_possibleStates(slf, exp, subs) ==
    IF exp.kind = "UnaryOperation" /\ exp.type = "BANG"
    THEN LET r == _possibleStates(slf, exp.expression, subs)
         IN IF r = None THEN None ELSE Some(slf.all_states \ r.v)
    ELSE IF exp.kind = "BinaryOperation"
    THEN IF exp.type \in {"ANDAND", "OROR"}
         THEN LET left == _possibleStates(slf, exp.expression_left, subs)
                  right == _possibleStates(slf, exp.expression_right, subs)
              IN IF left = None THEN right
                 ELSE IF right = None THEN left
                 ELSE IF exp.type = "ANDAND" THEN Some(left.v \cap right.v)
                 ELSE Some(left.v \cup right.v)
         ELSE IF exp.type \in {"EQUAL", "NOT_EQUAL"}
         THEN LET swap == expr_is_var(exp.expression_right, slf.state_var)
                  exp_left == IF swap THEN exp.expression_right ELSE exp.expression_left
                  exp_right0 == IF swap THEN exp.expression_left ELSE exp.expression_right
              IN IF expr_is_var(exp_left, slf.state_var)
                 THEN LET exp_right ==
                              IF exp_right0.kind = "Identifier"
                                 /\ exp_right0.value \in DOMAIN subs
                              THEN subs[exp_right0.value] ELSE exp_right0
                      IN IF expr_is_enum_val(exp_right, slf.enum_type)
                         THEN IF exp.type = "EQUAL"
                              THEN Some({exp_right.member_name})
                              ELSE Some(slf.all_states \ {exp_right.member_name})
                         ELSE None
                 ELSE None
         ELSE None
    ELSE None

possibleStates(slf, exp, subs) ==
    With(_possibleStates(slf, exp, subs),
         LAMBDA states : IF states # None THEN states.v ELSE slf.all_states)

\* a walker that ignores assignments to the tracked variable
mergeEndingStates_ignores_assignment(slf, node, ending_states, subs) == ending_states

mergeEndingStates(slf, node, ending_states, subs) ==
    IF /\ node.expression.kind = "AssignmentOperation"
       /\ node.expression.type = "ASSIGN"
       /\ expr_is_var(node.expression.expression_left, slf.state_var)
    THEN LET rhs == node.expression.expression_right
         IN IF expr_is_enum_val(rhs, slf.enum_type)
            THEN {rhs.member_name}
            ELSE slf.all_states
    ELSE ending_states

\* a walker that records edges in inlined callees too
records_edges_any_level(level) == TRUE

\* line 92: edges are recorded only by the routine being explored
records_edges(level) == level = 0

\* a walker for which a failing path still hands its context back
revertResult_keeps_context(slf, newCtx) == Return(slf, newCtx)

\* lines 88-89: a revert node ends the path with the empty set
revertResult(slf, newCtx) == Return(slf, {})

RECURSIVE exploreNode(_, _, _, _, _, _)
RECURSIVE mergeInfo(_, _, _, _, _, _)

mergeInfo(slf, node, context, ending_states, subs, level) ==
    IF node = None
    THEN Raise(slf, "AttributeError")  \* None.contains_require_or_assert()
    ELSE IF contains_require_or_assert(node)
    THEN Return(slf, context \cap possibleStates(slf, node.expression.arguments[1], subs))
    ELSE IF /\ node.expression.kind = "CallExpression"
            /\ node.expression.called.kind = "Identifier"
            /\ node.expression.called.value.cls = "Function"
    THEN LET func == node.expression.called.value
             params == func.parameters
             arguments == node.expression.arguments
         IN IF Len(params) # Len(arguments)
            THEN Raise(slf, "AssertionError")
            ELSE LET subs1 == DictZip(params, arguments)
                 IN OnReturn(exploreNode(slf, func.entry_point, context, ending_states,
                                         subs1, level + 1),
                             LAMBDA r : Return(r.self, context \cap r.ret))
    ELSE Return(slf, context)

exploreNode(slf, node, context, ending_states, subs, level) ==
    OnReturn(mergeInfo(slf, node, context, ending_states, subs, level), LAMBDA mi :
    With(mergeEndingStates(mi.self, node, ending_states, subs), LAMBDA new_ending_states :
    LET newCtx == mi.ret
    IN IF is_revert(node) THEN revertResult(mi.self, newCtx)
       ELSE IF Len(node.sons) = 0
       THEN Return(IF records_edges(level)
                   THEN completeCodePath(mi.self, newCtx, new_ending_states)
                   ELSE mi.self,
                   newCtx)
       ELSE IF Len(node.sons) = 1
       THEN exploreNode(mi.self, node.sons[1], newCtx, new_ending_states, subs, level)
       ELSE IF node.type = "IF"
       THEN LET ctx_true == newCtx \cap possibleStates(mi.self, node.expression, subs)
            IN OnReturn(exploreNode(mi.self, node.sons[1], ctx_true,
                                    new_ending_states, subs, level), LAMBDA res_true :
               LET negated_exp == UnaryOperation(node.expression, "BANG")
                   ctx_false == newCtx \cap possibleStates(res_true.self, negated_exp, subs)
               IN OnReturn(exploreNode(res_true.self, node.sons[2], ctx_false,
                                       new_ending_states, subs, level), LAMBDA res_false :
                  Return(res_false.self, res_true.ret \cup res_false.ret)))
       ELSE IF node.type = "IFLOOP"
       THEN \* node.son_false is the second successor of a loop guard
            exploreNode(mi.self, node.sons[2], newCtx, new_ending_states, subs, level)
       ELSE Raise(mi.self, "Exception")))

\* an explorer that keeps the edges of the previous exploration
beginExplore_keeps_edges(slf, func) == [slf EXCEPT !.func = func]

\* lines 53-54: the working edge set and the current routine are reset
beginExplore(slf, func) == [slf EXCEPT !.edges = {}, !.func = func]

exploreFunction(slf, func) ==
    With(beginExplore(slf, func), LAMBDA s1 :
    IF func.entry_point # None
    THEN OnReturn(exploreNode(s1, func.entry_point, initialContext(s1), {None},
                              EmptyDict, 0),
                  LAMBDA r : Return(r.self, r.self.edges))
    ELSE Return(s1, {Edge(s, s, Label(func)) : s \in s1.all_states}))

\* lines 45 and 48: the set comprehension filtering edges by start state
filterInitial(edges, initial_states) ==
    PySet({edge.s_to : edge \in {e \in edges : PyIn(e.s_from, initial_states)}})

find_initial_states(slf, constructor_vars, constructor) ==
    LET initial0 == slf.enum_type.values[1]
    IN OnReturn(IF constructor_vars # None
                THEN OnReturn(exploreFunction(slf, constructor_vars),
                              LAMBDA r : Return(r.self, filterInitial(r.ret, initial0)))
                ELSE Return(slf, initial0), LAMBDA r1 :
       IF constructor # None
       THEN OnReturn(exploreFunction(r1.self, constructor),
                     LAMBDA r : Return(r.self, filterInitial(r.ret, r1.ret)))
       ELSE r1)

\* Graph.TransitionGraph
TransitionGraph(states, initial_states) ==
    [states |-> states, initial_states |-> initial_states, edges |-> {}]

\* Graph.TransitionGraph.addEdge
addEdge(graph, s_from, s_to, label) ==
    [graph EXCEPT !.edges = @ \cup {Edge(s_from, s_to, label)}]

\* next((f for f in functions if pred(f)), None)
FirstOr(seq, Pred(_)) ==
    IF \E i \in 1..Len(seq) : Pred(seq[i])
    THEN seq[CHOOSE i \in 1..Len(seq) : Pred(seq[i]) /\ \A j \in 1..(i - 1) : ~Pred(seq[j])]
    ELSE None

AddAll(graph, edges) ==
    [graph EXCEPT !.edges = @ \cup {Edge(e.s_from, e.s_to, e.label) : e \in edges}]

\* lines 34-38: the loop over contract.functions from position i on
RECURSIVE exploreAll(_, _, _, _)
exploreAll(slf, funcs, i, graph) ==
    IF i > Len(funcs) THEN Return(slf, graph)
    ELSE LET func == funcs[i]
         IN IF ~(func.is_constructor \/ func.is_constructor_variables)
            THEN OnReturn(exploreFunction(slf, func),
                          LAMBDA r : exploreAll(r.self, funcs, i + 1, AddAll(graph, r.ret)))
            ELSE exploreAll(slf, funcs, i + 1, graph)

is_cv(f) == f.is_constructor_variables
is_c(f) == f.is_constructor

inferTransitionGraph(slf) ==
    LET constructor_vars == FirstOr(slf.contract.functions, is_cv)
        constructor == FirstOr(slf.contract.functions, is_c)
    IN OnReturn(find_initial_states(slf, constructor_vars, constructor), LAMBDA r0 :
       exploreAll(r0.self, slf.contract.functions, 1,
                  TransitionGraph(Range(slf.enum_type.values), r0.ret)))

-----------------------------------------------------------------------------
(* Inputs: program units as the front end hands them over *)

nA == PyStr(<<"A">>)
nB == PyStr(<<"B">>)
nC == PyStr(<<"C">>)
nD == PyStr(<<"D">>)
nAB == PyStr(<<"A", "B">>)

state == StateVariable("state")
EnumVal(T, m) == MemberAccess(Identifier(T), m)
StateEq(T, m) == BinaryOperation(Identifier(state), EnumVal(T, m), "EQUAL")
StateNe(T, m) == BinaryOperation(Identifier(state), EnumVal(T, m), "NOT_EQUAL")
Or(a, b) == BinaryOperation(a, b, "OROR")
And(a, b) == BinaryOperation(a, b, "ANDAND")
Not(a) == UnaryOperation(a, "BANG")

Entry(sons) == Node("ENTRY_POINT", None, sons)
RequireNode(e, sons) ==
    Node("EXPRESSION", CallExpression(Identifier(SolidityFunction("require(bool)")), <<e>>), sons)
AssignNode(lhs, rhs, sons) ==
    Node("EXPRESSION", AssignmentOperation(Identifier(lhs), rhs, "ASSIGN"), sons)
CallNode(f, args, sons) == Node("EXPRESSION", CallExpression(Identifier(f), args), sons)
RevertNode(sons) ==
    Node("EXPRESSION", CallExpression(Identifier(SolidityFunction("revert()")), <<>>), sons)
Plain(t, sons) == Node(t, None, sons)

\* A statement list compiled to its control-flow nodes; cont is the successor
\* list of the last statement.  The result is a successor list.
RECURSIVE Block(_, _)
Block(stmts, cont) ==
    IF stmts = <<>> THEN cont
    ELSE LET st == Head(stmts)
             rest == Block(Tail(stmts), cont)
         IN CASE st.s = "require" -> <<RequireNode(st.e, rest)>>
              [] st.s = "assign" -> <<AssignNode(st.lhs, st.e, rest)>>
              [] st.s = "call" -> <<CallNode(st.f, st.args, rest)>>
              [] st.s = "revert" -> <<RevertNode(<<>>)>>
              [] st.s = "throw" -> <<Plain("THROW", <<>>)>>
              [] st.s = "placeholder" -> <<Plain("PLACEHOLDER", rest)>>
              [] st.s = "if" ->
                    <<Node("IF", st.e, Block(st.then, <<Plain("END_IF", rest)>>)
                                        \o Block(st.else, <<Plain("END_IF", rest)>>))>>
              [] st.s = "while" ->
                    <<Plain("BEGIN_LOOP",
                        <<Node("IFLOOP", st.e,
                               Block(st.body, <<Plain("END_LOOP", <<>>)>>)
                               \o <<Plain("END_LOOP", rest)>>)>>)>>
              [] st.s = "try" ->
                    <<Node("TRY", st.e, Block(st.then, rest) \o Block(st.else, rest))>>

Require(e) == [s |-> "require", e |-> e]
Assign(lhs, e) == [s |-> "assign", lhs |-> lhs, e |-> e]
Call(f, args) == [s |-> "call", f |-> f, args |-> args]
Revert == [s |-> "revert"]
Throw == [s |-> "throw"]
Placeholder == [s |-> "placeholder"]
If(e, t, f) == [s |-> "if", e |-> e, then |-> t, else |-> f]
While(e, b) == [s |-> "while", e |-> e, body |-> b]
Try(e, t, f) == [s |-> "try", e |-> e, then |-> t, else |-> f]

Routine(n, params, stmts) == Function(n, params, Entry(Block(stmts, <<>>)), FALSE, FALSE)
Constructor(stmts) == Function("constructor", <<>>, Entry(Block(stmts, <<>>)), TRUE, FALSE)
ConstructorVariables(stmts) ==
    Function("slitherConstructorVariables", <<>>, Entry(Block(stmts, <<>>)), FALSE, TRUE)
Stub(n, params) == Function(n, params, None, FALSE, FALSE)

Unit(enum_type, functions) == [enum_type |-> enum_type, functions |-> functions]

x == StateVariable("x")
zero == [kind |-> "Literal", value |-> "0"]

\* enumstate.py, WIKI_EXPLOIT_SCENARIO: contract Foo
State4 == EnumContract("State", <<nA, nB, nC, nD>>)
inState ==
    Routine("inState", <<LocalVariable("s")>>,
            <<Require(BinaryOperation(Identifier(state), Identifier(LocalVariable("s")), "EQUAL")),
              Placeholder>>)
goToB == Routine("goToB", <<>>,
                 <<Require(Or(StateEq(State4, nA), StateEq(State4, nC))),
                   Assign(state, EnumVal(State4, nB))>>)
goToC == Routine("goToC", <<>>,
                 <<Call(inState, <<EnumVal(State4, nB)>>),
                   Assign(state, EnumVal(State4, nC))>>)
Foo == Unit(State4,
            <<Constructor(<<Assign(state, EnumVal(State4, nB)), Assign(x, zero)>>),
              goToB, goToC>>)

\* Scenario D of the specification: f calls g(K), g(p) calls h(p), h(q) guards
\* on state == q
State3 == EnumContract("State", <<nA, nB, nC>>)
p == LocalVariable("p")
q == LocalVariable("q")
h == Routine("h", <<q>>,
             <<Require(BinaryOperation(Identifier(state), Identifier(q), "EQUAL"))>>)
g == Routine("g", <<p>>, <<Call(h, <<Identifier(p)>>)>>)
f(K) == Routine("f", <<>>, <<Call(g, <<EnumVal(State3, K)>>)>>)
ScenarioD(K) == Unit(State3, <<f(K), g, h>>)

\* Routines over State3 built from short statement lists
b == LocalVariable("b")
v == LocalVariable("v")
setC == Routine("setC", <<>>, <<Assign(state, EnumVal(State3, nC))>>)
failIfA == Routine("failIfA", <<>>, <<If(StateEq(State3, nA), <<Revert>>, <<>>)>>)
hook == Stub("hook", <<>>)
other == Routine("other", <<>>, <<>>)
external == CallExpression(MemberAccess(Identifier(x), PyStr(<<"f">>)), <<>>)

Alphabet ==
    << Require(StateEq(State3, nA)),
       Require(StateNe(State3, nA)),
       Require(Or(StateEq(State3, nA), StateEq(State3, nC))),
       Assign(state, EnumVal(State3, nB)),
       Assign(state, Identifier(v)),
       Assign(x, zero),
       If(StateEq(State3, nA), <<Assign(state, EnumVal(State3, nC))>>, <<>>),
       If(StateEq(State3, nB), <<Revert>>, <<>>),
       If(Identifier(b), <<Throw>>, <<Assign(state, EnumVal(State3, nA))>>),
       If(StateNe(State3, nC), <<Assign(state, EnumVal(State3, nB))>>, <<Try(external, <<>>, <<>>)>>),
       Call(inState, <<EnumVal(State3, nB)>>),
       Call(setC, <<>>),
       Call(failIfA, <<>>),
       Call(hook, <<>>),
       Revert,
       Try(external, <<>>, <<Revert>>),
       While(Identifier(b), <<Assign(state, EnumVal(State3, nC))>>) >>

MaxLen == 2

Bodies ==
    UNION {[1..n -> 1..Len(Alphabet)] : n \in 0..MaxLen}

BodyOf(ix) == [i \in 1..Len(ix) |-> Alphabet[ix[i]]]

BodyUnits == {Unit(State3, <<Routine("r", <<>>, BodyOf(ix)), other, hook>>) : ix \in Bodies}

\* Units with a field-initializer pseudo-routine and/or a constructor, over
\* enumerated types whose member names may contain one another
EnumTypes ==
    { EnumContract("State", <<nA, nB, nC>>),
      EnumContract("State", <<nAB, nA, nB>>),
      EnumContract("State", <<nB, nAB, nA>>) }

FieldInits(T) ==
    { <<>>,
      <<ConstructorVariables(<<Assign(state, EnumVal(T, T.values[2]))>>)>>,
      <<ConstructorVariables(<<Assign(x, zero)>>)>> }

Constructors(T) ==
    { <<>>,
      <<Constructor(<<>>)>>,
      <<Constructor(<<Assign(state, EnumVal(T, T.values[3]))>>)>>,
      <<Constructor(<<If(StateEq(T, T.values[2]),
                        <<Assign(state, EnumVal(T, T.values[3]))>>, <<>>)>>)>>,
      <<Constructor(<<Require(StateNe(T, T.values[3]))>>)>> }

InitUnits ==
    UNION {{Unit(T, cv \o c \o <<other>>) : cv \in FieldInits(T), c \in Constructors(T)} :
           T \in EnumTypes}

Units == {Foo} \cup {ScenarioD(K) : K \in Range(State3.values)} \cup BodyUnits \cup InitUnits

-----------------------------------------------------------------------------
(* The explorer as a state machine: one action per public method *)

Init ==
    /\ self \in {EnumExplorer([functions |-> u.functions], state, u.enum_type) : u \in Units}
    /\ ret = [op |-> "__init__", args |-> <<>>, exc |-> "none", value |-> None]

ExploreFunction(func) ==
    \E r \in {exploreFunction(self, func)} :
        /\ self' = r.self
        /\ ret' = Result("exploreFunction", <<func>>, r)

FindInitialStates(constructor_vars, constructor) ==
    \E r \in {find_initial_states(self, constructor_vars, constructor)} :
        /\ self' = r.self
        /\ ret' = Result("find_initial_states", <<constructor_vars, constructor>>, r)

InferTransitionGraph ==
    \E r \in {inferTransitionGraph(self)} :
        /\ self' = r.self
        /\ ret' = Result("inferTransitionGraph", <<>>, r)

Next ==
    \/ \E func \in Range(self.contract.functions) : ExploreFunction(func)
    \/ \E cv \in {None, FirstOr(self.contract.functions, is_cv)},
          c \in {None, FirstOr(self.contract.functions, is_c)} :
            FindInitialStates(cv, c)
    \/ InferTransitionGraph

Spec == Init /\ [][Next]_vars

-----------------------------------------------------------------------------
(* The predicate evaluator on its own: possibleStates on boolean expressions *)
(* over comparisons of the tracked variable and opaque boolean atoms         *)

NumConsts == 2
NumOpaque == 1

OpaqueNames == <<"b1", "b2", "b3">>
Opaque == {LocalVariable(OpaqueNames[i]) : i \in 1..NumOpaque}
Consts == {State3.values[i] : i \in 1..NumConsts}

Atoms ==
    {StateEq(State3, K) : K \in Consts}
    \cup {StateNe(State3, K) : K \in Consts}
    \cup {BinaryOperation(EnumVal(State3, nA), Identifier(state), "EQUAL")}
    \cup {Identifier(o) : o \in Opaque}

Level1 ==
    Atoms \cup {Not(a) : a \in Atoms}
    \cup {And(a1, a2) : a1 \in Atoms, a2 \in Atoms}
    \cup {Or(a1, a2) : a1 \in Atoms, a2 \in Atoms}

PredExprs ==
    Level1 \cup {Not(e) : e \in Level1}
    \cup {And(e, a) : e \in Level1, a \in Atoms}
    \cup {Or(e, a) : e \in Level1, a \in Atoms}

\* The expression to evaluate is drawn with the initial state
InitPred ==
    /\ self = EnumExplorer([functions |-> <<>>], state, State3)
    /\ \E exp \in PredExprs :
           ret = [op |-> "__init__", args |-> <<exp>>, exc |-> "none", value |-> None]

PossibleStates(exp, subs) ==
    /\ ret.op = "__init__"
    /\ ret' = Result("possibleStates", <<exp>>, Return(self, possibleStates(self, exp, subs)))
    /\ UNCHANGED self

NextPred == PossibleStates(ret.args[1], EmptyDict)

SpecPred == InitPred /\ [][NextPred]_vars

-----------------------------------------------------------------------------
(* Reference semantics used to state the properties *)

\* The value of a comparison operand when the tracked variable holds cur
Val(e, cur) == IF e.kind = "Identifier" THEN cur ELSE e.member_name

\* The truth of a boolean expression when the tracked variable holds cur and
\* the opaque atoms have the values truth gives them
RECURSIVE Eval(_, _, _)
Eval(e, cur, truth) ==
    IF e.kind = "UnaryOperation" THEN ~Eval(e.expression, cur, truth)
    ELSE IF e.kind = "BinaryOperation"
    THEN CASE e.type = "ANDAND" ->
                  Eval(e.expression_left, cur, truth) /\ Eval(e.expression_right, cur, truth)
           [] e.type = "OROR" ->
                  Eval(e.expression_left, cur, truth) \/ Eval(e.expression_right, cur, truth)
           [] e.type = "EQUAL" -> Val(e.expression_left, cur) = Val(e.expression_right, cur)
           [] e.type = "NOT_EQUAL" -> Val(e.expression_left, cur) # Val(e.expression_right, cur)
    ELSE truth[e.value]

IsFunctionCall(node) ==
    /\ node.expression.kind = "CallExpression"
    /\ node.expression.called.kind = "Identifier"
    /\ node.expression.called.value.cls = "Function"

Callee(node) == node.expression.called.value

AssignsState(node) ==
    /\ node.expression.kind = "AssignmentOperation"
    /\ node.expression.expression_left = Identifier(state)

\* A comparison of the tracked variable with an enum constant, or a boolean
\* combination of such comparisons
RECURSIVE Classified(_)
Classified(e) ==
    IF e.kind = "UnaryOperation" THEN Classified(e.expression)
    ELSE IF e.kind = "BinaryOperation"
    THEN IF e.type \in {"ANDAND", "OROR"}
         THEN Classified(e.expression_left) /\ Classified(e.expression_right)
         ELSE /\ e.type \in {"EQUAL", "NOT_EQUAL"}
              /\ e.expression_left = Identifier(state)
              /\ e.expression_right.kind = "MemberAccess"
    ELSE FALSE

\* The routine has no loop and no call, guards and branches on classified
\* conditions only, and assigns only constants to the tracked variable
RECURSIVE Straight(_)
Straight(node) ==
    /\ ~IsFunctionCall(node)
    /\ contains_require_or_assert(node) => Classified(node.expression.arguments[1])
    /\ AssignsState(node) =>
           /\ node.expression.type = "ASSIGN"
           /\ node.expression.expression_right.kind = "MemberAccess"
    /\ Len(node.sons) >= 2 => node.type = "IF" /\ Classified(node.expression)
    /\ \A i \in 1..Len(node.sons) : Straight(node.sons[i])

Fail == [cls |-> "Fail"]
NoTruth == [o \in {} |-> FALSE]

\* Concrete execution of a plain routine from the value cur: the final value
\* of the tracked variable, or Fail when a guard fails or a revert is hit
RECURSIVE Run(_, _)
Run(node, cur) ==
    IF contains_require_or_assert(node) /\ ~Eval(node.expression.arguments[1], cur, NoTruth)
    THEN Fail
    ELSE IF is_revert(node) THEN Fail
    ELSE LET now == IF AssignsState(node) THEN node.expression.expression_right.member_name
                    ELSE cur
         IN IF Len(node.sons) = 0 THEN now
            ELSE IF Len(node.sons) = 1 THEN Run(node.sons[1], now)
            ELSE IF Eval(node.expression, now, NoTruth)
                 THEN Run(node.sons[1], now) ELSE Run(node.sons[2], now)

\* Some control-flow path from node, through inlined callees, is compatible
\* with the start value s (no guard or branch condition on it excludes s)
\* and ends in a node that is not a revert
RECURSIVE Viable(_, _, _, _)
Viable(slf, node, s, subs) ==
    IF node = None THEN TRUE
    ELSE /\ contains_require_or_assert(node) =>
                s \in possibleStates(slf, node.expression.arguments[1], subs)
         /\ IsFunctionCall(node) =>
                Viable(slf, Callee(node).entry_point, s,
                       DictZip(Callee(node).parameters, node.expression.arguments))
         /\ ~is_revert(node)
         /\ \/ Len(node.sons) = 0
            \/ Len(node.sons) = 1 /\ Viable(slf, node.sons[1], s, subs)
            \/ /\ Len(node.sons) >= 2
               /\ node.type = "IF"
               /\ \/ /\ s \in possibleStates(slf, node.expression, subs)
                     /\ Viable(slf, node.sons[1], s, subs)
                  \/ /\ s \in possibleStates(slf, Not(node.expression), subs)
                     /\ Viable(slf, node.sons[2], s, subs)
            \/ /\ Len(node.sons) >= 2
               /\ node.type # "IF"
               /\ \E i \in 1..Len(node.sons) : Viable(slf, node.sons[i], s, subs)

\* Every control-flow path from node reaches a revert node
RECURSIVE AllPathsRevert(_)
AllPathsRevert(node) ==
    IF node = None THEN FALSE
    ELSE \/ is_revert(node)
         \/ IsFunctionCall(node) /\ AllPathsRevert(Callee(node).entry_point)
         \/ /\ Len(node.sons) > 0
            /\ \A i \in 1..Len(node.sons) : AllPathsRevert(node.sons[i])

\* How the walk from node ends: "unsupported" when it reaches a node with two
\* or more successors that is neither IF nor IFLOOP, "error" when something
\* else stops it first, "done" otherwise
RECURSIVE Walk(_)
Walk(node) ==
    IF node = None THEN "error"
    ELSE LET inner == IF IsFunctionCall(node)
                      THEN IF Len(Callee(node).parameters) # Len(node.expression.arguments)
                           THEN "error" ELSE Walk(Callee(node).entry_point)
                      ELSE "done"
         IN IF inner # "done" THEN inner
            ELSE IF is_revert(node) \/ Len(node.sons) = 0 THEN "done"
            ELSE IF Len(node.sons) = 1 THEN Walk(node.sons[1])
            ELSE IF node.type = "IF"
            THEN LET first == Walk(node.sons[1])
                 IN IF first # "done" THEN first ELSE Walk(node.sons[2])
            ELSE IF node.type = "IFLOOP" THEN Walk(node.sons[2])
            ELSE "unsupported"

\* The values the routine's own nodes can assign to the tracked variable
RECURSIVE OwnAssigned(_, _)
OwnAssigned(slf, node) ==
    IF node = None THEN {}
    ELSE (IF AssignsState(node)
          THEN IF node.expression.expression_right.kind = "MemberAccess"
               THEN {node.expression.expression_right.member_name}
               ELSE slf.all_states
          ELSE {})
         \cup UNION {OwnAssigned(slf, node.sons[i]) : i \in 1..Len(node.sons)}

IsStubCall(node) == IsFunctionCall(node) /\ Callee(node).entry_point = None

\* Some node of the routine calls a routine that has no entry node
RECURSIVE CallsStub(_)
CallsStub(node) ==
    \/ IsStubCall(node)
    \/ \E i \in 1..Len(node.sons) : CallsStub(node.sons[i])

\* The routine with its calls to routines without an entry node taken out
RECURSIVE WithoutStubCalls(_)
WithoutStubCalls(node) ==
    [node EXCEPT !.expression = IF IsStubCall(node) THEN None ELSE @,
                 !.sons = [i \in 1..Len(node.sons) |-> WithoutStubCalls(node.sons[i])]]

IsUnit(u) == self.contract.functions = u.functions /\ self.enum_type = u.enum_type

Explored(name) == ret.op = "exploreFunction" /\ ret.args[1].name = name

-----------------------------------------------------------------------------
(* Properties *)

\* C1: on contract Foo of the detector's documentation (enum {A,B,C,D}, a
\* constructor setting B, goToB guarded by A or C, goToC guarded by
\* inState(B)), inferTransitionGraph returns initial states {B}, the edges
\* (A,B,goToB), (C,B,goToB), (B,C,goToC), and no edge touching D.
ScenarioAGraph ==
    (IsUnit(Foo) /\ ret.op = "inferTransitionGraph") =>
        /\ ret.exc = "none"
        /\ ret.value.initial_states = PySet({nB})
        /\ {Edge(nA, nB, "goToB"), Edge(nC, nB, "goToB"), Edge(nB, nC, "goToC")}
               \subseteq ret.value.edges
        /\ \A e \in ret.value.edges : e.s_from # nD /\ e.s_to # nD

ScenarioAInferred == IsUnit(Foo) /\ ret.op = "inferTransitionGraph" /\ ret.exc = "none"

\* C2: for a routine without loops and calls, guarding and branching on
\* classified conditions and assigning only constants, every concrete
\* execution from a start value s that ends normally with the value t has
\* its edge (s, t, routine) in the result of exploreFunction.
EdgeSoundness ==
    (/\ ret.op = "exploreFunction"
     /\ ret.args[1].entry_point # None
     /\ Straight(ret.args[1].entry_point)) =>
        /\ ret.exc = "none"
        /\ \A s \in self.all_states :
               LET t == Run(ret.args[1].entry_point, s)
               IN t # Fail => Edge(s, t, Label(ret.args[1])) \in ret.value

\* C3: in the chain f -> g(K) -> h(p) with require(state == q) in h, every
\* edge of exploreFunction(f) starts from K.
ScenarioDResolves ==
    \A K \in Range(State3.values) :
        (IsUnit(ScenarioD(K)) /\ Explored("f")) =>
            /\ ret.exc = "none"
            /\ \A e \in ret.value : e.s_from = K

\* C4: every state value that can satisfy a boolean expression, under some
\* truth assignment to its opaque atoms, is in possibleStates of it.
PredicateSoundness ==
    ret.op = "possibleStates" =>
        \A s \in self.all_states : \A truth \in [Opaque -> BOOLEAN] :
            Eval(ret.args[1], s, truth) => s \in ret.value

\* C5: the initial states of the inferred graph are a set of state values
\* within AllStates, and exactly {first declared value} when the unit has
\* neither a field-initializer routine nor a constructor.
InitialStatesAreASet ==
    (ret.op = "inferTransitionGraph" /\ ret.exc = "none") =>
        /\ ret.value.initial_states.cls = "set"
        /\ ret.value.initial_states.v \subseteq self.all_states
        /\ (/\ FirstOr(self.contract.functions, is_cv) = None
            /\ FirstOr(self.contract.functions, is_c) = None) =>
               ret.value.initial_states = PySet({self.enum_type.values[1]})

\* C6: the first exploration of find_initial_states contributes exactly the
\* to-states of the edges that start from the first declared value.
InitialFilterIsEquality ==
    (/\ ret.op = "find_initial_states"
     /\ ret.exc = "none"
     /\ (ret.args[1] = None) # (ret.args[2] = None)) =>
        ret.value = PySet({e.s_to : e \in {d \in self.edges :
                                             d.s_from = self.enum_type.values[1]}})

\* C7: a start value all of whose compatible control-flow paths (callees
\* inlined) end in a revert node has no edge in the result of
\* exploreFunction, and a routine all of whose paths reach a revert node
\* yields no edge at all.
RevertContributesNoEdge ==
    (ret.op = "exploreFunction" /\ ret.exc = "none") =>
        /\ \A s \in self.all_states :
               ~Viable(self, ret.args[1].entry_point, s, EmptyDict) =>
                   \A e \in ret.value : e.s_from # s
        /\ AllPathsRevert(ret.args[1].entry_point) => ret.value = {}

\* a routine that reverts in an inlined callee for the start value A only
RevertInCalleeExplored ==
    /\ ret.op = "exploreFunction"
    /\ ret.args[1] = Routine("r", <<>>, <<Call(failIfA, <<>>)>>)
    /\ ret.value = {Edge(nB, nB, "r"), Edge(nC, nC, "r")}

\* C8: exploreFunction on a routine without entry node returns exactly the
\* reflexive edges, and a call to such a routine neither fails the
\* exploration of its caller nor changes its result.
AbsentEntryIsNoError ==
    /\ (ret.op = "exploreFunction" /\ ret.args[1].entry_point = None) =>
           /\ ret.exc = "none"
           /\ ret.value = {Edge(s, s, Label(ret.args[1])) : s \in self.all_states}
    /\ (/\ ret.op = "exploreFunction"
        /\ ret.args[1].entry_point # None
        /\ CallsStub(ret.args[1].entry_point)
        /\ Walk(WithoutStubCalls(ret.args[1].entry_point)) = "done") =>
           /\ ret.exc = "none"
           /\ ret.value =
                  exploreFunction(self, [ret.args[1] EXCEPT
                      !.entry_point = WithoutStubCalls(@)]).ret

\* C9: when the walk reaches a node with two or more successors that is
\* neither IF nor IFLOOP, exploreFunction raises and returns no edge list,
\* even when a completed path has already recorded edges; inferTransitionGraph
\* raises too and returns no graph; and every exploreFunction call gives the
\* outcome it gives on an explorer whose working edge set is empty, the
\* working set never holding an edge of another routine than the current
\* one, so nothing a failed walk recorded survives into the next exploration.
UnsupportedIsFatal ==
    /\ (ret.op = "exploreFunction" /\ Walk(ret.args[1].entry_point) = "unsupported") =>
           ret.exc = "Exception" /\ ret.value = None
    /\ (/\ ret.op = "inferTransitionGraph"
        /\ \E i \in 1..Len(self.contract.functions) :
               /\ self.contract.functions[i].entry_point # None
               /\ Walk(self.contract.functions[i].entry_point) = "unsupported") =>
           ret.exc # "none" /\ ret.value = None
    /\ ret.op = "exploreFunction" =>
           LET fresh == exploreFunction([self EXCEPT !.edges = {}, !.func = None],
                                        ret.args[1])
           IN ret.exc = fresh.exc /\ ret.value = fresh.ret /\ self.edges = fresh.self.edges
    /\ self.func # None => \A e \in self.edges : e.label = Label(self.func)

\* a walk that reached an unsupported node after a completed path had
\* recorded an edge in the working set
UnsupportedAfterRecordedEdge ==
    /\ ret.op = "exploreFunction"
    /\ Walk(ret.args[1].entry_point) = "unsupported"
    /\ ret.exc = "Exception"
    /\ self.edges # {}

\* C10: every edge of exploreFunction(r) is labelled r and leads either back
\* to its start value or to a value assigned by one of r's own nodes:
\* inlined callees leave the ending states alone and record no edge.
InliningLeavesEndingStates ==
    (ret.op = "exploreFunction" /\ ret.exc = "none") =>
        \A e \in ret.value :
            /\ e.label = Label(ret.args[1])
            /\ e.s_to = e.s_from \/ e.s_to \in OwnAssigned(self, ret.args[1].entry_point)

\* a routine that assigns B and then calls a routine assigning C
AssigningCalleeExplored ==
    /\ ret.op = "exploreFunction"
    /\ ret.args[1] = Routine("r", <<>>, <<Assign(state, EnumVal(State3, nB)), Call(setC, <<>>)>>)
    /\ ret.value = {Edge(s, nB, "r") : s \in Range(State3.values)}

====
